---- MODULE Spec2Model ----
(***************************************************************************)
(* Model of the Sacandaga calendar backend (src/server.py): one SQLite     *)
(* table `events` behind five Flask handlers, three of them wrapped by the *)
(* bearer-token decorator.                                                 *)
(*                                                                         *)
(* Text values are TLA+ strings; SQL NULL / JSON null / Python None is the *)
(* distinguished value Null.  Header and token text, where the code looks  *)
(* at single characters (split, lower), is a sequence of one-character     *)
(* strings.  uuid4 is modelled as a generator that never repeats an id.    *)
(***************************************************************************)
EXTENDS Integers, Sequences, FiniteSets, TLC

VARIABLES IS_PROD, BEARER_TOKEN, started, db, nextId, served, last, prev,
          deleted, created, cl

vars == <<IS_PROD, BEARER_TOKEN, started, db, nextId, served, last, prev,
          deleted, created, cl>>

\* db is the events table, keyed by id.  last is the latest request with its
\* response, prev the table before it.  deleted holds the ids whose DELETE was
\* answered 200; created maps an id to the POST that made it and its response,
\* until a PATCH or DELETE of that id succeeds.  cl holds the requests in
\* flight in the interleaved specification.

config == <<IS_PROD, BEARER_TOKEN>>

(* ------------------------------ bounds --------------------------------- *)

\* HTTP requests served in one run.
MaxRequests == 2

\* Concurrent clients of the interleaved specification.
NumClients == 2

(* ------------------------------ values --------------------------------- *)

Null == "<null>"

RequiredFields == <<"title", "background_color", "start", "end">>

Required == {RequiredFields[i] : i \in 1..Len(RequiredFields)}

Updatable == Required \cup {"description"}

Columns == {"id"} \cup Updatable

\* Values a client puts in a JSON field: null, the empty string, a text.
Vals == {Null, "", "x"}

\* Python truthiness of a JSON field value of this model (None and "" are falsy).
Truthy(v) == v /= Null /\ v /= ""

EmptyDb == [i \in {} |-> 0]

EmptyObj == [k \in {} |-> ""]

(* --------------------------- text helpers ------------------------------ *)

None == [present |-> FALSE, value |-> <<>>]

Some(s) == [present |-> TRUE, value |-> s]

\* `not x` for an optional string: None and "" are falsy.
Falsy(o) == ~o.present \/ o.value = <<>>

LowerChar(c) ==
    CASE c = "A" -> "a"
      [] c = "B" -> "b"
      [] c = "E" -> "e"
      [] c = "R" -> "r"
      [] c = "S" -> "s"
      [] c = "I" -> "i"
      [] c = "C" -> "c"
      [] OTHER -> c

\* str.lower()
Lower(w) == [i \in 1..Len(w) |-> LowerChar(w[i])]

IsSpace(c) == c = " "

RECURSIVE SplitFrom(_, _, _, _)
SplitFrom(s, i, cur, acc) ==
    IF i > Len(s)
    THEN IF cur = <<>> THEN acc ELSE Append(acc, cur)
    ELSE IF IsSpace(s[i])
         THEN SplitFrom(s, i + 1, <<>>, IF cur = <<>> THEN acc ELSE Append(acc, cur))
         ELSE SplitFrom(s, i + 1, Append(cur, s[i]), acc)

\* str.split(): the words between runs of whitespace.
Split(s) == SplitFrom(s, 1, <<>>, <<>>)

(* ------------------------------ the gate ------------------------------- *)

\* Whether the decorator checks the Authorization header at all.
GatingEnabled == IS_PROD /\ ~Falsy(BEARER_TOKEN)

TokenMatches(token) == Lower(token) = BEARER_TOKEN.value

\* validate_bearer_token: TRUE when the wrapped handler runs, FALSE for 401.
GatePasses(hdr) ==
    IF ~IS_PROD THEN TRUE
    ELSE IF Falsy(BEARER_TOKEN) THEN TRUE
    ELSE IF Falsy(hdr) THEN FALSE
    ELSE LET parts == Split(hdr.value) IN
         IF Len(parts) /= 2 \/ Lower(parts[1]) /= <<"b", "e", "a", "r", "e", "r">>
         THEN FALSE
         ELSE TokenMatches(parts[2])

(* ------------------------------ the store ------------------------------ *)

MkRow(id, t, c, s, e, d) ==
    [id |-> id, title |-> t, background_color |-> c, start |-> s, end |-> e,
     description |-> d]

initial_events == <<
    MkRow(0, "Opening Weekend", "#2365A1", "2025-07-04", "2025-07-06",
          "Elaine, Rick, Mark, Danee"),
    MkRow(0, "Michael & Katie", "#388E3C", "2025-07-25", "2025-08-10", Null),
    MkRow(0, "Scott, Doug, Mark, Elaine, Rick", "#7B1FA2", "2025-08-16",
          "2025-08-23", Null),
    MkRow(0, "Chris & Friends", "#A0522D", "2025-08-28", "2025-09-02", Null) >>

\* SELECT * FROM events WHERE id = ? ; fetchone(): the set holding the row, or {}.
SelectById(d, id) == IF id \in DOMAIN d THEN {d[id]} ELSE {}

\* SELECT * FROM events
SelectAll(d) == {d[i] : i \in DOMAIN d}

\* INSERT INTO events ... ; commit
InsertRow(d, row) == [i \in DOMAIN d \cup {row.id} |-> IF i = row.id THEN row ELSE d[i]]

\* Variant: the DELETE statement removes nothing.
DeleteRowMut(d, id) == d

\* DELETE FROM events WHERE id = ? ; commit
DeleteRow(d, id) == [i \in DOMAIN d \ {id} |-> d[i]]

\* Variant: the description branch of the SET clause is missing.
SetClauseMut(data) == [k \in DOMAIN data \cap Required |-> data[k]]

\* The columns the dynamic UPDATE statement sets, with their values.
SetClause(data) == [k \in DOMAIN data \cap Updatable |-> data[k]]

\* The NOT NULL constraint of the four required columns, for one UPDATE.
ViolatesNotNull(set) == \E k \in DOMAIN set \cap Required : set[k] = Null

\* A row with the SET clause applied.
ApplySet(row, set) == [k \in Columns |-> IF k \in DOMAIN set THEN set[k] ELSE row[k]]

\* UPDATE events SET ... WHERE id = ? : the table after the statement, which
\* touches no row when the id is absent.
UpdateRow(d, id, set) ==
    IF id \in DOMAIN d THEN [d EXCEPT ![id] = ApplySet(d[id], set)] ELSE d

\* Whether the UPDATE statement raises sqlite3.IntegrityError.
UpdateRaises(d, id, set) == id \in DOMAIN d /\ ViolatesNotNull(set)

RECURSIVE SeedFrom(_, _, _)
SeedFrom(d, n, k) ==
    IF k > Len(initial_events) THEN d
    ELSE LET e == initial_events[k] IN
         SeedFrom(InsertRow(d, [e EXCEPT !.id = n + k - 1]), n, k + 1)

\* Variant: init_db seeds without looking at the row count.
InitDbTableMut(d, n) == SeedFrom(d, n, 1)

\* The table after init_db, given the next unused id.
InitDbTable(d, n) == IF Cardinality(DOMAIN d) > 0 THEN d ELSE SeedFrom(d, n, 1)

\* Ids init_db consumes.
InitDbMinted(d) == IF Cardinality(DOMAIN d) > 0 THEN 0 ELSE Len(initial_events)

(* ----------------------------- requests -------------------------------- *)

Unparseable == [kind |-> "unparseable", data |-> EmptyObj]

JsonNull == [kind |-> "null", data |-> EmptyObj]

Obj(f) == [kind |-> "object", data |-> f]

\* request.get_json() raises (the body is no JSON text).
GetJsonRaises(body) == body.kind = "unparseable"

\* `not data` after request.get_json()
NoData(body) == body.kind = "null" \/ DOMAIN body.data = {}

NoFields == [k \in {} |-> ""]

NoResp == {}

Idle == [pc |-> "idle", op |-> "none", id |-> 0, set |-> NoFields, status |-> 0, resp |-> NoResp]

NoHeader == None

Response(op, id, hdr, body, status, resp) ==
    [op |-> op, id |-> id, hdr |-> hdr, body |-> body, status |-> status, resp |-> resp]

\* Variant: create_event checks only that the required keys are present.
FirstBadMut(data, i) ==
    IF \E j \in i..Len(RequiredFields) : RequiredFields[j] \notin DOMAIN data
    THEN i ELSE 0

\* The first required field create_event finds missing or empty, 0 if none.
RECURSIVE FirstBad(_, _)
FirstBad(data, i) ==
    IF i > Len(RequiredFields) THEN 0
    ELSE IF RequiredFields[i] \notin DOMAIN data \/ ~Truthy(data[RequiredFields[i]])
         THEN i
         ELSE FirstBad(data, i + 1)

\* Variant: an omitted description is stored as the empty string.
NewEventMut(id, data) ==
    MkRow(id, data["title"], data["background_color"], data["start"], data["end"],
          IF "description" \in DOMAIN data THEN data["description"] ELSE "")

\* new_event of create_event
NewEvent(id, data) ==
    MkRow(id, data["title"], data["background_color"], data["start"], data["end"],
          IF "description" \in DOMAIN data THEN data["description"] ELSE Null)

(* ----------------------------- handlers -------------------------------- *)

Outcome(status, resp, d) == [status |-> status, resp |-> resp, db |-> d]

\* get_event_by_id
GetResult(d, id) ==
    IF SelectById(d, id) = {} THEN Outcome(404, NoResp, d)
    ELSE Outcome(200, SelectById(d, id), d)

\* create_event, behind the decorator; nid is the uuid it would generate.
CreateResult(d, nid, hdr, body) ==
    IF ~GatePasses(hdr) THEN Outcome(401, NoResp, d)
    ELSE IF GetJsonRaises(body) THEN Outcome(500, NoResp, d)
    ELSE IF NoData(body) THEN Outcome(400, NoResp, d)
    ELSE IF FirstBad(body.data, 1) /= 0 THEN Outcome(400, NoResp, d)
    ELSE LET new_event == NewEvent(nid, body.data) IN
         Outcome(201, {new_event}, InsertRow(d, new_event))

\* update_event, behind the decorator.
UpdateResult(d, id, hdr, body) ==
    IF ~GatePasses(hdr) THEN Outcome(401, NoResp, d)
    ELSE IF GetJsonRaises(body) THEN Outcome(500, NoResp, d)
    ELSE IF NoData(body) THEN Outcome(400, NoResp, d)
    ELSE IF SelectById(d, id) = {} THEN Outcome(404, NoResp, d)
    ELSE LET set == SetClause(body.data) IN
         IF DOMAIN set = {} THEN Outcome(400, NoResp, d)
         ELSE IF UpdateRaises(d, id, set) THEN Outcome(500, NoResp, d)
         ELSE LET d2 == UpdateRow(d, id, set) IN
              Outcome(200, SelectById(d2, id), d2)

\* delete_event, behind the decorator.
DeleteResult(d, id, hdr) ==
    IF ~GatePasses(hdr) THEN Outcome(401, NoResp, d)
    ELSE IF SelectById(d, id) = {} THEN Outcome(404, NoResp, d)
    ELSE Outcome(200, NoResp, DeleteRow(d, id))

(* ------------------------------ inputs --------------------------------- *)

\* Path ids a client sends: every id minted so far, and 0, which never is.
ReqIds == 0..(nextId - 1)

OneKey == {[k \in {key} |-> v] : key \in Updatable \cup {"zzz"}, v \in Vals}

AllBut(key) == [k \in Updatable \ {key} |-> "x"]

\* A complete body with one field altered.
Altered(key, v) == [k \in Updatable |-> IF k = key THEN v ELSE "x"]

\* Sets of updatable fields a PATCH body supplies together: none, one, all
\* but one, all.
FieldSets == {S \in SUBSET Updatable : Cardinality(S) \in {0, 1, 4, 5}}

\* Bodies of PATCH requests: unparseable text, null, every one-field object
\* (null, "" or a text; an updatable field or an unknown one), and for every
\* set of FieldSets the object that supplies exactly it.
UpdateBodies ==
    {Unparseable, JsonNull}
      \cup {Obj(f) : f \in OneKey}
      \cup {Obj([k \in S |-> "x"]) : S \in FieldSets}

\* Bodies of POST requests: unparseable text, null, {}, and the objects that
\* leave out none or one of the five fields or give one of them as null or "".
CreateBodies ==
    {Unparseable, JsonNull, Obj(EmptyObj)}
      \cup {Obj(AllBut(key)) : key \in Updatable}
      \cup {Obj(Altered(key, v)) : key \in Updatable, v \in Vals}

(* ------------------------------ actions -------------------------------- *)

Remember(f, id, v) == [i \in DOMAIN f \cup {id} |-> IF i = id THEN v ELSE f[i]]

Forget(f, id) == [i \in DOMAIN f \ {id} |-> f[i]]

CanServe == started /\ served < MaxRequests

Serve(op, id, hdr, body, out) ==
    /\ db' = out.db
    /\ prev' = db
    /\ last' = Response(op, id, hdr, body, out.status, out.resp)
    /\ served' = served + 1
    /\ UNCHANGED <<config, started, cl>>

\* Module load (line 136): runs at every process start.
InitDb ==
    /\ db' = InitDbTable(db, nextId)
    /\ nextId' = nextId + InitDbMinted(db)
    /\ started' = TRUE
    /\ prev' = db
    /\ last' = Response("init", 0, NoHeader, JsonNull, 0, NoResp)
    /\ UNCHANGED <<config, served, deleted, created, cl>>

GetAllEvents ==
    /\ CanServe
    /\ Serve("list", 0, NoHeader, JsonNull, Outcome(200, SelectAll(db), db))
    /\ UNCHANGED <<nextId, deleted, created>>

GetEventById(id) ==
    /\ CanServe
    /\ Serve("get", id, NoHeader, JsonNull, GetResult(db, id))
    /\ UNCHANGED <<nextId, deleted, created>>

CreateEvent(hdr, body) ==
    /\ CanServe
    /\ LET out == CreateResult(db, nextId, hdr, body) IN
         /\ Serve("create", 0, hdr, body, out)
         /\ nextId' = IF out.status = 201 THEN nextId + 1 ELSE nextId
         /\ created' = IF out.status = 201
                        THEN Remember(created, nextId, [body |-> body, resp |-> out.resp])
                        ELSE created
    /\ UNCHANGED deleted

UpdateEvent(id, hdr, body) ==
    /\ CanServe
    /\ LET out == UpdateResult(db, id, hdr, body) IN
         /\ Serve("update", id, hdr, body, out)
         /\ created' = IF out.status = 200 THEN Forget(created, id) ELSE created
    /\ UNCHANGED <<nextId, deleted>>

DeleteEvent(id, hdr) ==
    /\ CanServe
    /\ LET out == DeleteResult(db, id, hdr) IN
         /\ Serve("delete", id, hdr, JsonNull, out)
         /\ deleted' = IF out.status = 200 THEN deleted \cup {id} ELSE deleted
         /\ created' = IF out.status = 200 THEN Forget(created, id) ELSE created
    /\ UNCHANGED nextId

(* --------------------------- specifications ---------------------------- *)

\* Process start with no database file, before the module is loaded.
InitStore ==
    /\ started = FALSE
    /\ db = EmptyDb
    /\ nextId = 1
    /\ served = 0
    /\ last = Response("none", 0, NoHeader, JsonNull, 0, NoResp)
    /\ prev = EmptyDb
    /\ deleted = {}
    /\ created = EmptyDb
    /\ cl = [p \in 1..NumClients |-> Idle]

\* The default configuration: APP_ENV unset, BEARER_TOKEN unset.
Init ==
    /\ IS_PROD = FALSE
    /\ BEARER_TOKEN = None
    /\ InitStore

Next ==
    \/ InitDb
    \/ GetAllEvents
    \/ \E id \in ReqIds : GetEventById(id)
    \/ \E body \in CreateBodies : CreateEvent(NoHeader, body)
    \/ \E id \in ReqIds, body \in UpdateBodies : UpdateEvent(id, NoHeader, body)
    \/ \E id \in ReqIds : DeleteEvent(id, NoHeader)

Spec == Init /\ [][Next]_vars

(* ------------------------- properties: Spec ---------------------------- *)

IsEmptyVal(v) == v = "" \/ v = Null

ObjectBody == last.body.kind = "object"

\* The last body gives all four required fields a non-empty value.
CompleteBody ==
    \A k \in Required : k \in DOMAIN last.body.data /\ ~IsEmptyVal(last.body.data[k])

\* C1: every stored Event has a non-empty title, background colour, start
\* and end, in every reachable state.
C1_RequiredFieldsNonEmpty ==
    \A i \in DOMAIN db : \A k \in Required : ~IsEmptyVal(db[i][k])

\* C2: a partial update answered 200 changes exactly the supplied fields of
\* the addressed Event: each supplied field holds the supplied value (null
\* for a description supplied as null), every other field and the id keep
\* their prior value, and every other Event is unchanged.
C2_PartialUpdateFrame ==
    (last.op = "update" /\ last.status = 200) =>
        /\ last.id \in DOMAIN prev
        /\ DOMAIN db = DOMAIN prev
        /\ \A i \in DOMAIN db \ {last.id} : db[i] = prev[i]
        /\ db[last.id].id = last.id
        /\ \A k \in Updatable :
             db[last.id][k] = IF k \in DOMAIN last.body.data
                              THEN last.body.data[k]
                              ELSE prev[last.id][k]

C2_Witness ==
    /\ last.op = "update" /\ last.status = 200
    /\ DOMAIN last.body.data = {"description"}
    /\ last.body.data["description"] = Null
    /\ prev[last.id].description /= Null
    /\ db[last.id].description = Null
    /\ db[last.id].title = prev[last.id].title

\* C3: a create request whose JSON object lacks one of the four required
\* fields, or gives it as empty, is answered 400 and leaves the store as
\* it was.
C3_CreateRejectsIncomplete ==
    (/\ last.op = "create" /\ ObjectBody
     /\ \E k \in Required :
          k \notin DOMAIN last.body.data \/ IsEmptyVal(last.body.data[k]))
       => (last.status = 400 /\ db = prev)

C3_Witness ==
    /\ last.op = "create" /\ ObjectBody
    /\ DOMAIN last.body.data = Updatable
    /\ last.body.data["title"] = ""
    /\ last.status = 400
    /\ db = prev

C7_ClientFaultsAre4xx ==
    (last.op \in {"create", "update"}) =>
        /\ last.status /= 500
        /\ (~ObjectBody \/ DOMAIN last.body.data = {}) => last.status = 400
        /\ (last.op = "update" /\ ObjectBody /\ last.id \in DOMAIN prev
              /\ \E k \in Required \cap DOMAIN last.body.data :
                    IsEmptyVal(last.body.data[k]))
             => last.status = 400

\* C8: a create with four non-empty required fields is answered 201 with an
\* id no Event had before; the record it returns carries the supplied values
\* (description null when omitted); and a get of that id, with no update or
\* delete of it in between, is answered 200 with that same record.
C8_CreateThenGet ==
    /\ (last.op = "create" /\ ObjectBody /\ CompleteBody) =>
          /\ last.status = 201
          /\ \E row \in last.resp :
               /\ last.resp = {row}
               /\ row.id \notin DOMAIN prev \cup deleted
               /\ \A k \in Required : row[k] = last.body.data[k]
               /\ row.description = IF "description" \in DOMAIN last.body.data
                                    THEN last.body.data["description"] ELSE Null
    /\ (last.op = "get" /\ last.id \in DOMAIN created) =>
          /\ last.status = 200
          /\ last.resp = created[last.id].resp
          /\ \E row \in last.resp :
               /\ row.id = last.id
               /\ \A k \in Required : row[k] = created[last.id].body.data[k]
               /\ row.description =
                    IF "description" \in DOMAIN created[last.id].body.data
                    THEN created[last.id].body.data["description"] ELSE Null

C8_Witness ==
    /\ last.op = "get" /\ last.status = 200
    /\ last.id \in DOMAIN created
    /\ "description" \notin DOMAIN created[last.id].body.data
    /\ \E row \in last.resp : row.description = Null /\ row.title = "x"

SeedRows == {initial_events[k] : k \in 1..Len(initial_events)}

\* C9: init_db on an empty store leaves exactly the four seed Events, each
\* under its own id; on a store holding an Event it leaves the store as it
\* was; so a further init_db changes nothing.
C9_InitSeedsOnce ==
    (last.op = "init") =>
        /\ prev = EmptyDb =>
             /\ Cardinality(DOMAIN db) = 4
             /\ {[db[i] EXCEPT !.id = 0] : i \in DOMAIN db} = SeedRows
             /\ \A i \in DOMAIN db : db[i].id = i
        /\ prev /= EmptyDb => db = prev
        /\ InitDbTable(db, nextId) = db

C9_Witness ==
    /\ last.op = "init"
    /\ prev = EmptyDb
    /\ Cardinality(DOMAIN db) = 4
    /\ \E i \in DOMAIN db : db[i].title = "Opening Weekend"

(* -------------------- the gate under every configuration --------------- *)

Bearer == <<"B", "e", "a", "r", "e", "r">>

Schemes == {Bearer, <<"b", "e", "a", "r", "e", "r">>, <<"B", "a", "s", "i", "c">>}

\* Values of the BEARER_TOKEN environment variable.
Secrets == {<<"a", "b">>, <<"A", "b">>}

\* Tokens a client presents.
AuthTokens == Secrets \cup {<<"A", "B">>, <<"c", "c">>}

\* Authorization headers: absent, empty, blank, a scheme alone, scheme and
\* token (one or two blanks between), and three words.
AuthHeaders ==
    {None, Some(<<>>), Some(<<" ">>), Some(Bearer)}
      \cup {Some(s \o <<" ">> \o t) : s \in Schemes, t \in AuthTokens}
      \cup {Some(Bearer \o <<" ", " ">> \o t) : t \in Secrets}
      \cup {Some(Bearer \o <<" ">> \o t \o <<" ">> \o t) : t \in Secrets}

AuthBody == Obj([k \in {"title"} |-> "x"])

AuthCreateBody == Obj(AllBut("description"))

\* Any APP_ENV, and BEARER_TOKEN unset, empty or set to a secret.
InitAuth ==
    /\ IS_PROD \in BOOLEAN
    /\ BEARER_TOKEN \in {None, Some(<<>>)} \cup {Some(t) : t \in Secrets}
    /\ InitStore

NextAuth ==
    \/ InitDb
    \/ \E hdr \in AuthHeaders : CreateEvent(hdr, AuthCreateBody)
    \/ \E id \in ReqIds, hdr \in AuthHeaders : UpdateEvent(id, hdr, AuthBody)
    \/ \E id \in ReqIds, hdr \in AuthHeaders : DeleteEvent(id, hdr)

SpecAuth == InitAuth /\ [][NextAuth]_vars

(* ----------------------- properties: SpecAuth -------------------------- *)

Gated == last.op \in {"create", "update", "delete"}

\* The header reads `Bearer <token>` (two words, the scheme in any case)
\* and its token is the configured secret, character for character.
ValidCredential(hdr) ==
    /\ hdr.present
    /\ \E scheme \in {w \in Schemes : Lower(w) = Lower(Bearer)} :
         \E blanks \in {<<" ">>, <<" ", " ">>} :
            hdr.value = scheme \o blanks \o BEARER_TOKEN.value

\* C4: with gating enabled, a create, partial update or delete whose
\* Authorization header is missing, is not of the form `Bearer <token>`, or
\* carries a token other than the configured secret is answered 401 and
\* leaves the store as it was.
C4_BadCredentialRejected ==
    (GatingEnabled /\ Gated /\ ~ValidCredential(last.hdr)) =>
        (last.status = 401 /\ db = prev)

\* C5: with gating enabled, a create, partial update or delete whose header
\* is `Bearer <secret>`, the secret verbatim, is never answered 401.
C5_GoodCredentialAccepted ==
    (GatingEnabled /\ Gated /\ last.hdr = Some(Bearer \o <<" ">> \o BEARER_TOKEN.value))
        => last.status /= 401

(* ----------------- interleaved requests (one per client) --------------- *)

\* Each request runs on its own connection; between two of its statements
\* the statements of other requests may run.

Clients == 1..NumClients

CanBegin(p) == started /\ served < MaxRequests /\ cl[p].pc \in {"idle", "done"}

Done(op, id, status, resp) ==
    [pc |-> "done", op |-> op, id |-> id, set |-> NoFields, status |-> status, resp |-> resp]

At(pc, op, id, set) ==
    [pc |-> pc, op |-> op, id |-> id, set |-> set, status |-> 0, resp |-> NoResp]

Step(p, c) ==
    /\ cl' = [cl EXCEPT ![p] = c]
    /\ UNCHANGED <<config, started, nextId, last, prev, created>>

\* update_event up to and including its first SELECT and the SET clause.
UpdBegin(p, id, hdr, body) ==
    /\ CanBegin(p)
    /\ served' = served + 1
    /\ Step(p, IF ~GatePasses(hdr) THEN Done("update", id, 401, NoResp)
               ELSE IF GetJsonRaises(body) THEN Done("update", id, 500, NoResp)
               ELSE IF NoData(body) THEN Done("update", id, 400, NoResp)
               ELSE IF SelectById(db, id) = {} THEN Done("update", id, 404, NoResp)
               ELSE IF DOMAIN SetClause(body.data) = {} THEN Done("update", id, 400, NoResp)
               ELSE At("upd_write", "update", id, SetClause(body.data)))
    /\ UNCHANGED <<db, deleted>>

\* update_event: the UPDATE statement and its commit.
UpdWrite(p) ==
    /\ cl[p].pc = "upd_write"
    /\ IF UpdateRaises(db, cl[p].id, cl[p].set)
       THEN /\ Step(p, Done("update", cl[p].id, 500, NoResp))
            /\ UNCHANGED db
       ELSE /\ Step(p, At("upd_fetch", "update", cl[p].id, cl[p].set))
            /\ db' = UpdateRow(db, cl[p].id, cl[p].set)
    /\ UNCHANGED <<served, deleted>>

\* update_event: the closing SELECT and the 200 response.
UpdFetch(p) ==
    /\ cl[p].pc = "upd_fetch"
    /\ Step(p, Done("update", cl[p].id, 200, SelectById(db, cl[p].id)))
    /\ UNCHANGED <<db, served, deleted>>

\* delete_event up to and including its SELECT.
DelBegin(p, id, hdr) ==
    /\ CanBegin(p)
    /\ served' = served + 1
    /\ Step(p, IF ~GatePasses(hdr) THEN Done("delete", id, 401, NoResp)
               ELSE IF SelectById(db, id) = {} THEN Done("delete", id, 404, NoResp)
               ELSE At("del_write", "delete", id, NoFields))
    /\ UNCHANGED <<db, deleted>>

\* delete_event: the DELETE statement, its commit and the 200 response.
DelWrite(p) ==
    /\ cl[p].pc = "del_write"
    /\ Step(p, Done("delete", cl[p].id, 200, NoResp))
    /\ db' = DeleteRow(db, cl[p].id)
    /\ deleted' = deleted \cup {cl[p].id}
    /\ UNCHANGED served

ConcBodies == {Obj([k \in {"title"} |-> "x"]), Obj([k \in {"title"} |-> Null])}

NextConc ==
    \/ InitDb
    \/ \E p \in Clients, id \in ReqIds, body \in ConcBodies : UpdBegin(p, id, NoHeader, body)
    \/ \E p \in Clients : UpdWrite(p)
    \/ \E p \in Clients : UpdFetch(p)
    \/ \E p \in Clients, id \in ReqIds : DelBegin(p, id, NoHeader)
    \/ \E p \in Clients : DelWrite(p)

SpecConc == Init /\ [][NextConc]_vars

(* ----------------------- properties: SpecConc -------------------------- *)

Answered(p, op, status) == cl[p].pc = "done" /\ cl[p].op = op /\ cl[p].status = status

\* C10: under any interleaving, a partial update answered 200 returns the
\* post-update record of its id, never an empty body, and no two deletes of
\* one Event are both answered 200.
C10_RequestsAtomic ==
    /\ \A p \in Clients :
         Answered(p, "update", 200) => \E row \in cl[p].resp : row.id = cl[p].id
    /\ \A p, q \in Clients :
         (p /= q /\ Answered(p, "delete", 200) /\ Answered(q, "delete", 200))
            => cl[p].id /= cl[q].id

====
